---------------------------- MODULE Spec2Model ----------------------------
(***************************************************************************)
(* A model of py-shell-alias (src/aliasdb.py, src/alias.py): the Alias     *)
(* record, the shell renderer, the JSON and YAML store backends working on *)
(* a seekable text stream, and the AliasDB operations built on them.       *)
(*                                                                         *)
(* Python strings are sequences of one-character strings.  Python values   *)
(* that cross an interface are tagged records (field t), so that None, a   *)
(* str, a dict and an Alias never compare equal by accident.  A Python     *)
(* dict is the sequence of its <<key, value>> items in insertion order.    *)
(* A call ends in [outcome |-> "return", ret |-> v] or in                  *)
(* [outcome |-> "raise", exc |-> name of the exception class].             *)
(***************************************************************************)
EXTENDS Integers, Sequences, FiniteSets, TLC

VARIABLES
    backend,   \* which AliasBackend subclass the AliasDB wraps: "json" | "yaml"
    fp,        \* the stream the backend owns: [buf |-> characters, pos |-> offset]
    origin,    \* how the stream started: "empty" | "file" (never changes)
    last       \* the last call made on the AliasDB or the module, with its result

vars == <<backend, fp, origin, last>>

-----------------------------------------------------------------------------
(* Bounds of the model.                                                    *)

\* How many of the names of NameList the calls may use.
MaxNames == 2
\* The longest command string handed to the shell renderer.
MaxLen == 3

-----------------------------------------------------------------------------
(* Characters and strings.                                                 *)

DQ == "\""
SQ == "'"
BS == "\\"
NL == "\n"
SP == " "

\* The printable ASCII characters from code point 32 to 95 and from 97 to
\* 126, in code point order.
Printable32 ==
    <<SP, "!", DQ, "#", "$", "%", "&", SQ, "(", ")", "*", "+", ",", "-", ".", "/",
      "0", "1", "2", "3", "4", "5", "6", "7", "8", "9", ":", ";", "<", "=", ">", "?",
      "@", "A", "B", "C", "D", "E", "F", "G", "H", "I", "J", "K", "L", "M", "N", "O",
      "P", "Q", "R", "S", "T", "U", "V", "W", "X", "Y", "Z", "[", BS, "]", "^", "_">>
Printable97 ==
    <<"a", "b", "c", "d", "e", "f", "g", "h", "i", "j", "k", "l", "m", "n", "o",
      "p", "q", "r", "s", "t", "u", "v", "w", "x", "y", "z", "{", "|", "}", "~">>

OrdTable ==
    [c \in {Printable32[i] : i \in 1..Len(Printable32)}
            \cup {Printable97[i] : i \in 1..Len(Printable97)} \cup {NL} |->
        IF c = NL THEN 10
        ELSE IF \E i \in 1..Len(Printable32) : Printable32[i] = c
             THEN 31 + (CHOOSE i \in 1..Len(Printable32) : Printable32[i] = c)
        ELSE 96 + (CHOOSE i \in 1..Len(Printable97) : Printable97[i] = c)]

\* ord(c): Python compares str by code point.
Ord(c) == OrdTable[c]

RECURSIVE StrLessFrom(_, _, _)
StrLessFrom(s, t, i) ==
    IF i > Len(t) THEN FALSE
    ELSE IF i > Len(s) THEN TRUE
    ELSE IF Ord(s[i]) < Ord(t[i]) THEN TRUE
    ELSE IF Ord(s[i]) > Ord(t[i]) THEN FALSE
    ELSE StrLessFrom(s, t, i + 1)

\* s < t for two Python str.
StrLess(s, t) == StrLessFrom(s, t, 1)

RECURSIVE Concat(_)
\* ''.join(parts)
Concat(parts) ==
    IF parts = <<>> THEN <<>> ELSE Head(parts) \o Concat(Tail(parts))

RECURSIVE ReplaceFrom(_, _, _, _)
ReplaceFrom(s, old, new, i) ==
    IF i > Len(s) THEN <<>>
    ELSE (IF s[i] = old THEN new ELSE <<s[i]>>) \o ReplaceFrom(s, old, new, i + 1)

\* str.replace(old, new) for a one-character old.
Replace(s, old, new) == ReplaceFrom(s, old, new, 1)

\* All strings over alphabet of length at most n.
RECURSIVE StringsUpTo(_, _)
StringsUpTo(alphabet, n) ==
    IF n = 0 THEN {<<>>}
    ELSE LET shorter == StringsUpTo(alphabet, n - 1)
         IN  shorter \cup {Append(s, c) : s \in shorter, c \in alphabet}

-----------------------------------------------------------------------------
(* Python values.                                                          *)

PyNone == [t |-> "None"]
PyStr(s) == [t |-> "str", s |-> s]
PyDict(items) == [t |-> "dict", items |-> items]

Return(v) == [outcome |-> "return", ret |-> v]
Raise(e) == [outcome |-> "raise", exc |-> e]

\* dict operations on the item sequence.
DictKeys(items) == {items[i][1] : i \in 1..Len(items)}
DictHas(items, k) == k \in DictKeys(items)
DictIndex(items, k) == CHOOSE i \in 1..Len(items) : items[i][1] = k
DictGet(items, k) == items[DictIndex(items, k)][2]
\* d[k] = v: an existing key keeps its place, a new key goes last.
DictSet(items, k, v) ==
    IF DictHas(items, k)
    THEN [items EXCEPT ![DictIndex(items, k)] = <<k, v>>]
    ELSE Append(items, <<k, v>>)
\* del d[k], for a key that is there.
DictDel(items, k) ==
    LET i == DictIndex(items, k)
    IN  SubSeq(items, 1, i - 1) \o SubSeq(items, i + 1, Len(items))
\* The mapping a dict stands for, its insertion order forgotten.
DictMap(items) == [k \in DictKeys(items) |-> DictGet(items, k)]

\* The item sequence sorted by key (keys are distinct str).
RECURSIVE SortItems(_)
SortItems(items) ==
    IF items = <<>> THEN <<>>
    ELSE LET m == CHOOSE i \in 1..Len(items) :
                      \A j \in 1..Len(items) : ~StrLess(items[j][1], items[i][1])
         IN  <<items[m]>> \o
             SortItems(SubSeq(items, 1, m - 1) \o SubSeq(items, m + 1, Len(items)))

-----------------------------------------------------------------------------
(* class Alias.                                                            *)

\* Alias.__init__: an empty-string category becomes None.
Alias(alias_name, command, category) ==
    [t |-> "Alias", alias_name |-> alias_name, command |-> command,
     category |-> IF category = PyStr(<<>>) THEN PyNone ELSE category]

PyInt(n) == [t |-> "int", n |-> n]
PyBool(b) == [t |-> "bool", b |-> b]

\* bool(v)
Truthy(v) ==
    CASE v.t = "bool" -> v.b
      [] v.t = "int" -> v.n # 0
      [] v.t = "None" -> FALSE
      [] v.t = "str" -> v.s # <<>>
      [] v.t = "dict" -> v.items # <<>>
      [] OTHER -> TRUE

\* Alias.__eq__(self, other): the value the method returns.
AliasEq(self, other) ==
    IF other = PyNone THEN PyInt(-1)
    ELSE IF other.t # "Alias" THEN PyInt(-1)
    ELSE PyBool(/\ self.alias_name = other.alias_name
                /\ self.command = other.command
                /\ self.category = other.category)

\* Alias.__ne__(self, other): not (self == other).
AliasNe(self, other) == PyBool(~Truthy(AliasEq(self, other)))

-----------------------------------------------------------------------------
(* The shell renderer.                                                     *)

\* A variant of escape that quotes double quotes only.
escape_double_quotes_only(string) ==
    Replace(string, DQ, <<BS, DQ>>)

\* escape(string): two str.replace passes, double quotes first.
escape(string) ==
    Replace(Replace(string, DQ, <<BS, DQ>>), SQ, <<BS, SQ>>)

\* get_sh_alias_command: 'alias %s="%s"\n' % (alias_name, escape(command))
get_sh_alias_command(alias_name, command) ==
    <<"a", "l", "i", "a", "s", SP>> \o alias_name \o <<"=", DQ>>
        \o escape(command) \o <<DQ, NL>>

\* (k1, c1) < (k2, c2) for two tuples of str.
TupleLess(p, q) ==
    \/ StrLess(p[1], q[1])
    \/ p[1] = q[1] /\ StrLess(p[2], q[2])

\* sorted(list of tuples)
RECURSIVE sorted(_)
sorted(list) ==
    IF list = <<>> THEN <<>>
    ELSE LET m == CHOOSE i \in 1..Len(list) :
                      \A j \in 1..Len(list) : ~TupleLess(list[j], list[i])
         IN  <<list[m]>> \o
             sorted(SubSeq(list, 1, m - 1) \o SubSeq(list, m + 1, Len(list)))

\* aliases_to_tuplelist(aliases): aliases.items() needs a dict.
aliases_to_tuplelist(aliases) ==
    IF aliases.t # "dict" THEN Raise("AttributeError")
    ELSE Return(sorted([i \in 1..Len(aliases.items) |->
                           <<aliases.items[i][1], aliases.items[i][2].command>>]))

RECURSIVE ScriptLines(_)
\* The loop of get_sh_script over the tuple list.
ScriptLines(alias_list) ==
    IF alias_list = <<>> THEN <<>>
    ELSE get_sh_alias_command(Head(alias_list)[1], Head(alias_list)[2])
             \o ScriptLines(Tail(alias_list))

-----------------------------------------------------------------------------
(* Converting between Alias objects and plain dicts.                       *)

KeyCommand == <<"c", "o", "m", "m", "a", "n", "d">>
KeyCategory == <<"c", "a", "t", "e", "g", "o", "r", "y">>

\* A document value, as json and yaml hand it over: PyNone, PyStr(s) or
\* PyDict(items) whose values are again document values.  An Alias keeps
\* its name and command as bare strings and its category as PyNone or PyStr.

\* dict_to_alias(alias, item): item['command'], item['category'].
dict_to_alias(alias, item) ==
    LET make(command, category) ==
            Return(Alias(alias, IF command.t = "str" THEN command.s ELSE command,
                         category))
    IN  IF item.t # "dict" THEN Raise("TypeError")
        ELSE IF ~DictHas(item.items, KeyCommand) THEN Raise("KeyError")
        ELSE IF ~DictHas(item.items, KeyCategory) THEN Raise("KeyError")
        ELSE make(DictGet(item.items, KeyCommand), DictGet(item.items, KeyCategory))

RECURSIVE dicts_to_aliases_loop(_, _, _)
\* The loop of dicts_to_aliases from item i on; olist is the dict so far.
dicts_to_aliases_loop(items, i, olist) ==
    LET step(r) ==
            IF r.outcome = "raise" THEN r
            ELSE dicts_to_aliases_loop(items, i + 1, DictSet(olist, items[i][1], r.ret))
    IN  IF i > Len(items) THEN Return(PyDict(olist))
        ELSE step(dict_to_alias(items[i][1], items[i][2]))

\* dicts_to_aliases(dlist): a dict of dicts to a dict of Alias objects.
dicts_to_aliases(dlist) ==
    IF dlist.t = "None" THEN Raise("TypeError")
    ELSE IF dlist.t = "str"
         THEN IF dlist.s = <<>> THEN Return(PyDict(<<>>)) ELSE Raise("TypeError")
    ELSE dicts_to_aliases_loop(dlist.items, 1, <<>>)

\* aliases_to_dicts(adict): {'command': ..., 'category': ...} per alias.
aliases_to_dicts(adict) ==
    [i \in 1..Len(adict) |->
        <<adict[i][1],
          PyDict(<< <<KeyCommand,
                      PyStr(adict[i][2].command)>>,
                    <<KeyCategory,
                      adict[i][2].category>> >>)>>]

-----------------------------------------------------------------------------
(* The stream: io.StringIO, or a file opened 'r+'.                         *)

\* fp.seek(n)
Seek(f, n) == [f EXCEPT !.pos = n]
\* What fp.read() returns: everything from the position on.
ReadAll(f) == SubSeq(f.buf, f.pos + 1, Len(f.buf))
\* The stream after fp.read().
AfterRead(f) == [f EXCEPT !.pos = Len(f.buf)]
\* fp.write(s): overwrites from the position on, growing the stream.
Write(f, s) ==
    [buf |-> SubSeq(f.buf, 1, f.pos) \o s
                 \o SubSeq(f.buf, f.pos + Len(s) + 1, Len(f.buf)),
     pos |-> f.pos + Len(s)]
\* fp.truncate(): cuts the stream at the position.
Truncate(f) == [f EXCEPT !.buf = SubSeq(f.buf, 1, f.pos)]

-----------------------------------------------------------------------------
(* json.dump(obj, fp, indent=4, sort_keys=True) and json.load(fp), for     *)
(* documents made of objects, strings and null.                            *)

Spaces(n) == [i \in 1..n |-> SP]

\* The encoder's string escapes (py_encode_basestring_ascii).
JsonEscapeChar(c) ==
    CASE c = DQ -> <<BS, DQ>>
      [] c = BS -> <<BS, BS>>
      [] c = NL -> <<BS, "n">>
      [] OTHER -> <<c>>

JsonString(s) ==
    <<DQ>> \o Concat([i \in 1..Len(s) |-> JsonEscapeChar(s[i])]) \o <<DQ>>

RECURSIVE JsonEncode(_, _, _)
\* The text of value v at nesting depth level, indented by indent.
JsonEncode(v, indent, level) ==
    CASE v.t = "None" -> <<"n", "u", "l", "l">>
      [] v.t = "str" -> JsonString(v.s)
      [] v.t = "dict" ->
            IF v.items = <<>> THEN <<"{", "}">>
            ELSE LET items == SortItems(v.items)
                     inner == <<NL>> \o Spaces(indent * (level + 1))
                     item(i) == (IF i = 1 THEN <<>> ELSE <<",">>) \o inner
                                    \o JsonString(items[i][1]) \o <<":", SP>>
                                    \o JsonEncode(items[i][2], indent, level + 1)
                 IN  <<"{">> \o Concat([i \in 1..Len(items) |-> item(i)])
                         \o <<NL>> \o Spaces(indent * level) \o <<"}">>

JsonFail == [ok |-> FALSE]
JsonOk(v, next) == [ok |-> TRUE, val |-> v, next |-> next]

RECURSIVE JsonSkipWs(_, _)
\* The index of the first character at or after i that is not whitespace.
JsonSkipWs(s, i) ==
    IF i <= Len(s) /\ s[i] \in {SP, NL} THEN JsonSkipWs(s, i + 1) ELSE i

RECURSIVE JsonScanString(_, _, _)
\* py_scanstring: i is the index after the opening quote.
JsonScanString(s, i, acc) ==
    IF i > Len(s) THEN JsonFail
    ELSE IF s[i] = DQ THEN JsonOk(acc, i + 1)
    ELSE IF s[i] = NL THEN JsonFail
    ELSE IF s[i] = BS
         THEN IF i + 1 > Len(s) THEN JsonFail
              ELSE IF s[i + 1] \in {DQ, BS} THEN JsonScanString(s, i + 2, Append(acc, s[i + 1]))
              ELSE IF s[i + 1] = "n" THEN JsonScanString(s, i + 2, Append(acc, NL))
              ELSE JsonFail
    ELSE JsonScanString(s, i + 1, Append(acc, s[i]))

RECURSIVE JsonParseValue(_, _)
RECURSIVE JsonParseMembers(_, _, _)

\* scan_once at index i (whitespace already skipped).
JsonParseValue(s, i) ==
    LET string(r) == IF r.ok THEN JsonOk(PyStr(r.val), r.next) ELSE JsonFail
        object(j) == IF j <= Len(s) /\ s[j] = "}" THEN JsonOk(PyDict(<<>>), j + 1)
                     ELSE JsonParseMembers(s, j, <<>>)
    IN  IF i > Len(s) THEN JsonFail
        ELSE IF s[i] = DQ THEN string(JsonScanString(s, i + 1, <<>>))
        ELSE IF s[i] = "{" THEN object(JsonSkipWs(s, i + 1))
        ELSE IF i + 3 <= Len(s) /\ SubSeq(s, i, i + 3) = <<"n", "u", "l", "l">>
             THEN JsonOk(PyNone, i + 4)
        ELSE JsonFail

\* JSONObject: the members of an object from index i, where a key must start.
JsonParseMembers(s, i, items) ==
    LET afterValue(got, m) ==
            IF m > Len(s) THEN JsonFail
            ELSE IF s[m] = "}" THEN JsonOk(PyDict(got), m + 1)
            ELSE IF s[m] = "," THEN JsonParseMembers(s, JsonSkipWs(s, m + 1), got)
            ELSE JsonFail
        value(key, v) ==
            IF ~v.ok THEN JsonFail
            ELSE afterValue(DictSet(items, key.val, v.val), JsonSkipWs(s, v.next))
        colon(key, j) ==
            IF j > Len(s) \/ s[j] # ":" THEN JsonFail
            ELSE value(key, JsonParseValue(s, JsonSkipWs(s, j + 1)))
        member(key) ==
            IF ~key.ok THEN JsonFail ELSE colon(key, JsonSkipWs(s, key.next))
    IN  IF i > Len(s) \/ s[i] # DQ THEN JsonFail
        ELSE member(JsonScanString(s, i + 1, <<>>))

\* json.loads(text): one value, whitespace around it, nothing after it.
\* ok = FALSE stands for json.JSONDecodeError.
JsonLoads(text) ==
    LET whole(r) == IF ~r.ok THEN JsonFail
                    ELSE IF JsonSkipWs(text, r.next) # Len(text) + 1 THEN JsonFail
                    ELSE r
    IN  whole(JsonParseValue(text, JsonSkipWs(text, 1)))

-----------------------------------------------------------------------------
(* yaml.dump(data, fp, default_flow_style=False, indent=4) and             *)
(* yaml.load(fp), for documents made of block mappings, one-line scalars   *)
(* and null.  Strings hold no line breaks and no characters outside        *)
(* printable ASCII, and none of y, n, t, f, o, digits or signs: a plain    *)
(* scalar other than the null forms resolves to a str.                     *)

\* The plain scalars the resolver reads as null.
YamlNullForms == {<<>>, <<"~">>, <<"n", "u", "l", "l">>,
                  <<"N", "u", "l", "l">>, <<"N", "U", "L", "L">>}

\* Emitter.analyze_scalar's allow_block_plain, and the serializer's
\* implicit[0]: whether str s may be written as a plain scalar.
YamlPlainOk(s) ==
    /\ s \notin YamlNullForms
    /\ s[1] \notin {"#", ",", "[", "]", "{", "}", "&", "*", "!", "|", ">",
                    SQ, DQ, "%", "@"}
    /\ ~(s[1] \in {"?", ":", "-"} /\ (Len(s) = 1 \/ s[2] = SP))
    /\ s[1] # SP /\ s[Len(s)] # SP
    /\ \A i \in 2..Len(s) :
          /\ ~(s[i] = ":" /\ (i = Len(s) \/ s[i + 1] = SP))
          /\ ~(s[i] = "#" /\ s[i - 1] = SP)

\* Emitter.write_single_quoted: a quote inside is doubled.
YamlSingleQuoted(s) == <<SQ>> \o Replace(s, SQ, <<SQ, SQ>>) \o <<SQ>>

\* The text of a scalar: None, or a str in the style choose_scalar_style picks.
YamlScalar(v) ==
    IF v.t = "None" THEN <<"n", "u", "l", "l">>
    ELSE IF YamlPlainOk(v.s) THEN v.s
    ELSE YamlSingleQuoted(v.s)

RECURSIVE YamlEmitMapping(_, _, _)
\* A block mapping, keys sorted, at nesting depth level.
YamlEmitMapping(items, indent, level) ==
    LET sortedItems == SortItems(items)
        entry(i) ==
            LET v == sortedItems[i][2]
            IN  Spaces(indent * level) \o YamlScalar(PyStr(sortedItems[i][1])) \o <<":">>
                    \o (IF v.t = "dict"
                        THEN IF v.items = <<>> THEN <<SP, "{", "}", NL>>
                             ELSE <<NL>> \o YamlEmitMapping(v.items, indent, level + 1)
                        ELSE <<SP>> \o YamlScalar(v) \o <<NL>>)
    IN  Concat([i \in 1..Len(sortedItems) |-> entry(i)])

\* yaml.dump of a dict document.
YamlDump(doc, indent) ==
    IF doc.items = <<>> THEN <<"{", "}", NL>>
    ELSE YamlEmitMapping(doc.items, indent, 0)

YamlFail == [ok |-> FALSE]

RECURSIVE YamlLineEnd(_, _)
\* The index of the first line break at or after i, Len(s) + 1 if none.
YamlLineEnd(s, i) ==
    IF i > Len(s) \/ s[i] = NL THEN i ELSE YamlLineEnd(s, i + 1)

RECURSIVE YamlSplit(_, _)
\* The lines of text s from index i on.
YamlSplit(s, i) ==
    IF i > Len(s) THEN <<>>
    ELSE LET e == YamlLineEnd(s, i)
         IN  <<SubSeq(s, i, e - 1)>> \o YamlSplit(s, e + 1)

RECURSIVE YamlSkipSp(_, _)
YamlSkipSp(l, i) ==
    IF i <= Len(l) /\ l[i] = SP THEN YamlSkipSp(l, i + 1) ELSE i

RECURSIVE YamlRStrip(_)
YamlRStrip(s) ==
    IF s # <<>> /\ s[Len(s)] = SP THEN YamlRStrip(SubSeq(s, 1, Len(s) - 1)) ELSE s

RECURSIVE YamlScanSingle(_, _, _)
\* A single-quoted scalar; i is the index after the opening quote.
YamlScanSingle(l, i, acc) ==
    IF i > Len(l) THEN YamlFail
    ELSE IF l[i] = SQ
         THEN IF i + 1 <= Len(l) /\ l[i + 1] = SQ
              THEN YamlScanSingle(l, i + 2, Append(acc, SQ))
              ELSE [ok |-> TRUE, val |-> PyStr(acc), next |-> i + 1]
    ELSE YamlScanSingle(l, i + 1, Append(acc, l[i]))

RECURSIVE YamlScanDouble(_, _, _)
\* A double-quoted scalar; i is the index after the opening quote.
YamlScanDouble(l, i, acc) ==
    IF i > Len(l) THEN YamlFail
    ELSE IF l[i] = DQ THEN [ok |-> TRUE, val |-> PyStr(acc), next |-> i + 1]
    ELSE IF l[i] = BS
         THEN IF i + 1 > Len(l) THEN YamlFail
              ELSE IF l[i + 1] \in {DQ, BS, SP} THEN YamlScanDouble(l, i + 2, Append(acc, l[i + 1]))
              ELSE IF l[i + 1] = "n" THEN YamlScanDouble(l, i + 2, Append(acc, NL))
              ELSE YamlFail
    ELSE YamlScanDouble(l, i + 1, Append(acc, l[i]))

RECURSIVE YamlScanPlain(_, _, _)
\* A plain scalar in block context: it ends before ": ", before a ":" that
\* ends the line, before " #", and at the end of the line.
YamlScanPlain(l, i, acc) ==
    IF i > Len(l) THEN [ok |-> TRUE, text |-> YamlRStrip(acc), next |-> i]
    ELSE IF l[i] = ":" /\ (i = Len(l) \/ l[i + 1] = SP)
         THEN [ok |-> TRUE, text |-> YamlRStrip(acc), next |-> i]
    ELSE IF l[i] = "#" /\ acc # <<>> /\ acc[Len(acc)] = SP
         THEN [ok |-> TRUE, text |-> YamlRStrip(acc), next |-> Len(l) + 1]
    ELSE YamlScanPlain(l, i + 1, Append(acc, l[i]))

\* The resolver: what a plain scalar stands for.
YamlResolve(text) == IF text \in YamlNullForms THEN PyNone ELSE PyStr(text)

\* One scalar of line l starting at index i <= Len(l).
YamlScanScalar(l, i) ==
    LET plain(r) == [ok |-> TRUE, val |-> YamlResolve(r.text), next |-> r.next]
    IN  IF l[i] = SQ THEN YamlScanSingle(l, i + 1, <<>>)
        ELSE IF l[i] = DQ THEN YamlScanDouble(l, i + 1, <<>>)
        ELSE IF l[i] \in {"#", ",", "[", "]", "{", "}", "&", "*", "!", "|", ">", "%", "@"}
             THEN YamlFail
        ELSE plain(YamlScanPlain(l, i, <<>>))

\* A line "key: value" or "key:".  entry = FALSE: the line is one scalar.
YamlParseLine(l) ==
    LET value(key, v) ==
            IF ~v.ok THEN YamlFail
            ELSE IF YamlSkipSp(l, v.next) # Len(l) + 1 THEN YamlFail
            ELSE [ok |-> TRUE, entry |-> TRUE, key |-> key.val,
                  inline |-> TRUE, val |-> v.val]
        afterColon(key, c, j) ==
            IF j > Len(l)
            THEN [ok |-> TRUE, entry |-> TRUE, key |-> key.val, inline |-> FALSE]
            ELSE IF j = c + 1 THEN YamlFail
            ELSE IF SubSeq(l, j, Len(l)) = <<"{", "}">>
                 THEN [ok |-> TRUE, entry |-> TRUE, key |-> key.val,
                       inline |-> TRUE, val |-> PyDict(<<>>)]
            ELSE value(key, YamlScanScalar(l, j))
        afterKey(key, c) ==
            IF c > Len(l) THEN [ok |-> TRUE, entry |-> FALSE, val |-> key.val]
            ELSE IF l[c] # ":" THEN YamlFail
            ELSE afterColon(key, c, YamlSkipSp(l, c + 1))
        line(key) ==
            IF ~key.ok THEN YamlFail ELSE afterKey(key, YamlSkipSp(l, key.next))
    IN  line(YamlScanScalar(l, YamlSkipSp(l, 1)))

\* The number of spaces line l starts with.
YamlIndent(l) == YamlSkipSp(l, 1) - 1

RECURSIVE YamlParseMapping(_, _, _, _)
\* The block mapping whose entries are the lines from k on indented by ind.
YamlParseMapping(lines, k, ind, items) ==
    LET nested(e, sub) ==
            IF ~sub.ok THEN YamlFail
            ELSE YamlParseMapping(lines, sub.next, ind, DictSet(items, e.key.s, sub.val))
        entry(e) ==
            IF ~e.ok THEN YamlFail
            ELSE IF ~e.entry \/ e.key.t # "str" THEN YamlFail
            ELSE IF e.inline
                 THEN YamlParseMapping(lines, k + 1, ind, DictSet(items, e.key.s, e.val))
            ELSE IF k + 1 <= Len(lines) /\ YamlIndent(lines[k + 1]) > ind
                 THEN nested(e, YamlParseMapping(lines, k + 1,
                                                 YamlIndent(lines[k + 1]), <<>>))
            ELSE YamlParseMapping(lines, k + 1, ind, DictSet(items, e.key.s, PyNone))
        at(n) ==
            IF n < ind THEN [ok |-> TRUE, val |-> PyDict(items), next |-> k]
            ELSE IF n > ind THEN YamlFail
            ELSE entry(YamlParseLine(lines[k]))
    IN  IF k > Len(lines) THEN [ok |-> TRUE, val |-> PyDict(items), next |-> k]
        ELSE at(YamlIndent(lines[k]))

\* yaml.load(text): the document, None for a stream with no document.
\* ok = FALSE stands for yaml.YAMLError.
YamlLoad(text) ==
    LET mapping(lines, r) ==
            IF r.ok /\ r.next = Len(lines) + 1 THEN [ok |-> TRUE, val |-> r.val]
            ELSE YamlFail
        document(lines, first) ==
            IF ~first.ok THEN YamlFail
            ELSE IF ~first.entry
                 THEN IF Len(lines) = 1 THEN [ok |-> TRUE, val |-> first.val]
                      ELSE YamlFail
            ELSE mapping(lines, YamlParseMapping(lines, 1, YamlIndent(lines[1]), <<>>))
        stream(lines) ==
            IF lines = <<>> THEN [ok |-> TRUE, val |-> PyNone]
            ELSE IF lines = << <<"{", "}">> >> THEN [ok |-> TRUE, val |-> PyDict(<<>>)]
            ELSE document(lines, YamlParseLine(lines[1]))
    IN  stream(SelectSeq(YamlSplit(text, 1), LAMBDA l : YamlSkipSp(l, 1) <= Len(l)))

-----------------------------------------------------------------------------
(* The store backends.  A method that reads or writes the stream yields    *)
(* [res |-> how the call ended, fp |-> the stream afterwards]; one that    *)
(* reached write_aliases(aliases) also yields written |-> aliases.         *)

KeyAliases == <<"a", "l", "i", "a", "s", "e", "s">>

\* d.get('aliases', default) on a dict document.
GetAliasesKey(d, default) ==
    IF DictHas(d.items, KeyAliases) THEN DictGet(d.items, KeyAliases) ELSE default

\* JSONBackend.get_aliases
JSONBackend_get_aliases(f) ==
    LET loaded(d, after) ==
            IF ~d.ok THEN [res |-> Return(PyDict(<<>>)), fp |-> after]
            ELSE IF d.val.t # "dict" THEN [res |-> Raise("AttributeError"), fp |-> after]
            ELSE [res |-> dicts_to_aliases(GetAliasesKey(d.val, PyDict(<<>>))),
                  fp |-> after]
    IN  loaded(JsonLoads(ReadAll(Seek(f, 0))), AfterRead(Seek(f, 0)))

\* JSONBackend.write_aliases: seek(0), json.dump, truncate.
JSONBackend_write_aliases(f, aliases) ==
    Truncate(Write(Seek(f, 0),
                   JsonEncode(PyDict(<< <<KeyAliases, PyDict(aliases_to_dicts(aliases))>> >>),
                              4, 0)))

\* A variant of YAMLBackend.get_aliases without the "d is None" test: the
\* document of an empty stream goes straight to d.get.
YAMLBackend_get_aliases_no_none_test(f) ==
    LET loaded(d, after) ==
            IF ~d.ok THEN [res |-> Raise("YAMLError"), fp |-> after]
            ELSE IF d.val.t # "dict" THEN [res |-> Raise("AttributeError"), fp |-> after]
            ELSE IF Truthy(GetAliasesKey(d.val, PyNone))
                 THEN [res |-> dicts_to_aliases(DictGet(d.val.items, KeyAliases)),
                       fp |-> after]
            ELSE [res |-> Return(PyNone), fp |-> after]
    IN  loaded(YamlLoad(ReadAll(Seek(f, 0))), AfterRead(Seek(f, 0)))

\* YAMLBackend.get_aliases
YAMLBackend_get_aliases(f) ==
    LET loaded(d, after) ==
            IF ~d.ok THEN [res |-> Raise("YAMLError"), fp |-> after]
            ELSE IF d.val = PyNone THEN [res |-> Return(PyDict(<<>>)), fp |-> after]
            ELSE IF d.val.t # "dict" THEN [res |-> Raise("AttributeError"), fp |-> after]
            ELSE IF Truthy(GetAliasesKey(d.val, PyNone))
                 THEN [res |-> dicts_to_aliases(DictGet(d.val.items, KeyAliases)),
                       fp |-> after]
            ELSE [res |-> Return(PyNone), fp |-> after]
    IN  loaded(YamlLoad(ReadAll(Seek(f, 0))), AfterRead(Seek(f, 0)))

\* YAMLBackend.write_aliases: seek(0), yaml.dump, truncate.
YAMLBackend_write_aliases(f, aliases) ==
    Truncate(Write(Seek(f, 0),
                   YamlDump(PyDict(<< <<KeyAliases, PyDict(aliases_to_dicts(aliases))>> >>),
                            4)))

\* self.get_aliases() and self.write_aliases(aliases) of backend b.
get_aliases(b, f) ==
    IF b = "json" THEN JSONBackend_get_aliases(f) ELSE YAMLBackend_get_aliases(f)
write_aliases(b, f, aliases) ==
    IF b = "json" THEN JSONBackend_write_aliases(f, aliases)
    ELSE YAMLBackend_write_aliases(f, aliases)

\* AliasBackend.remove_alias
AliasBackend_remove_alias(b, f, alias_name) ==
    LET remove(g) ==
            IF g.res.outcome = "raise" THEN g
            ELSE IF g.res.ret.t # "dict" THEN [res |-> Raise("TypeError"), fp |-> g.fp]
            ELSE IF ~DictHas(g.res.ret.items, alias_name)
                 THEN [res |-> Raise("KeyError"), fp |-> g.fp]
            ELSE [res |-> Return(PyNone),
                  fp |-> write_aliases(b, g.fp, DictDel(g.res.ret.items, alias_name)),
                  written |-> DictDel(g.res.ret.items, alias_name)]
    IN  remove(get_aliases(b, f))

\* A variant of AliasBackend.add_alias that keeps the record already stored
\* under the name (aliases.setdefault in place of the assignment).
AliasBackend_add_alias_keep_stored(b, f, alias) ==
    LET kept(items) ==
            IF DictHas(items, alias.alias_name) THEN items
            ELSE DictSet(items, alias.alias_name, alias)
        add(g) ==
            IF g.res.outcome = "raise" THEN g
            ELSE IF g.res.ret.t # "dict" THEN [res |-> Raise("TypeError"), fp |-> g.fp]
            ELSE [res |-> Return(PyNone),
                  fp |-> write_aliases(b, g.fp, kept(g.res.ret.items)),
                  written |-> kept(g.res.ret.items)]
    IN  add(get_aliases(b, f))

\* AliasBackend.add_alias
AliasBackend_add_alias(b, f, alias) ==
    LET add(g) ==
            IF g.res.outcome = "raise" THEN g
            ELSE IF g.res.ret.t # "dict" THEN [res |-> Raise("TypeError"), fp |-> g.fp]
            ELSE [res |-> Return(PyNone),
                  fp |-> write_aliases(b, g.fp,
                                       DictSet(g.res.ret.items, alias.alias_name, alias)),
                  written |-> DictSet(g.res.ret.items, alias.alias_name, alias)]
    IN  add(get_aliases(b, f))

-----------------------------------------------------------------------------
(* class AliasDB.                                                          *)

AliasDB_add_alias(b, f, alias) == AliasBackend_add_alias(b, f, alias)

AliasDB_remove_alias(b, f, alias_name) == AliasBackend_remove_alias(b, f, alias_name)

AliasDB_get_aliases(b, f) == get_aliases(b, f)

\* AliasDB.get_alias: self.get_aliases().get(alias_name, None)
AliasDB_get_alias(b, f, alias_name) ==
    LET get(g) ==
            IF g.res.outcome = "raise" THEN g
            ELSE IF g.res.ret.t # "dict"
                 THEN [res |-> Raise("AttributeError"), fp |-> g.fp]
            ELSE IF DictHas(g.res.ret.items, alias_name)
                 THEN [res |-> Return(DictGet(g.res.ret.items, alias_name)), fp |-> g.fp]
            ELSE [res |-> Return(PyNone), fp |-> g.fp]
    IN  get(AliasDB_get_aliases(b, f))

\* AliasDB.get_sh_script
AliasDB_get_sh_script(b, f) ==
    LET lines(g, alias_list) ==
            IF alias_list.outcome = "raise" THEN [res |-> alias_list, fp |-> g.fp]
            ELSE [res |-> Return(PyStr(ScriptLines(alias_list.ret))), fp |-> g.fp]
        script(g) ==
            IF g.res.outcome = "raise" THEN g
            ELSE lines(g, aliases_to_tuplelist(g.res.ret))
    IN  script(AliasDB_get_aliases(b, f))

-----------------------------------------------------------------------------
(* The inputs of the calls.                                                *)

\* Alias names, in the order the bound MaxNames takes them into use.
NameList == << <<"b">>, <<"a">>, <<"a", "b">> >>
Names == {NameList[i] : i \in 1..MaxNames}

\* Two commands: one with a double quote, one with a single quote and a
\* backslash.
Cmd1 == <<"a", DQ>>
Cmd2 == <<SQ, BS>>

\* The (command, category) pairs add_alias is called with.
AliasInputs ==
    {<<Cmd1, PyNone>>, <<Cmd1, PyStr(<<>>)>>, <<Cmd2, PyStr(<<"c">>)>>}

\* A hand-written JSON file in the manner of SIMPLE_ALIAS_JSON: names not
\* in order, command before category, an empty-string category.
JsonFixture ==
    Concat(<< <<NL, "{">>, JsonString(KeyAliases), <<":", SP, "{", NL, SP>>,
              JsonString(<<"b">>), <<SP, ":", "{">>,
              JsonString(KeyCommand), <<":", SP>>, JsonString(Cmd1), <<",", SP>>,
              JsonString(KeyCategory), <<":", SP>>, JsonString(<<>>), <<"}", ",", NL, SP>>,
              JsonString(<<"a">>), <<SP, ":", "{">>,
              JsonString(KeyCommand), <<":", SP>>, JsonString(Cmd2), <<",", SP>>,
              JsonString(KeyCategory), <<":", SP>>, JsonString(<<"c">>), <<"}">>,
              <<NL, "}", "}", NL>> >>)

\* A hand-written YAML file in the manner of SIMPLE_ALIAS_YAML: names not
\* in order, command before category, double-quoted commands.
YamlFixture ==
    Concat(<< KeyAliases, <<":", NL>>,
              Spaces(4), <<"b", ":", NL>>,
              Spaces(8), KeyCommand, <<":", SP, DQ, "a", BS, DQ, DQ, NL>>,
              Spaces(8), KeyCategory, <<":", SP, DQ, DQ, NL>>,
              Spaces(4), <<"a", ":", NL>>,
              Spaces(8), KeyCommand, <<":", SP, DQ, SQ, BS, BS, DQ, NL>>,
              Spaces(8), KeyCategory, <<":", SP, "c", NL>> >>)

\* A file that is neither a JSON nor a YAML document.
Garbage == <<"{", DQ, "a">>

\* The files an AliasDB may be opened on, besides an empty one.
InitialFiles(b) ==
    IF b = "json" THEN {JsonFixture, Garbage} ELSE {YamlFixture, Garbage}

-----------------------------------------------------------------------------
(* The alias database: an AliasDB over a backend over a stream, and the    *)
(* calls made on it.  last records the last call: its arguments, how it    *)
(* ended, the stream content it started from and, when the call reached    *)
(* write_aliases, the dict it passed.                                      *)

Init ==
    /\ backend \in {"json", "yaml"}
    /\ \/ origin = "empty" /\ fp = [buf |-> <<>>, pos |-> 0]
       \/ origin = "file" /\ \E text \in InitialFiles(backend) :
                                 fp = [buf |-> text, pos |-> 0]
    /\ last = [op |-> "init"]

\* aliases.add_alias(Alias(name, command, category))
AddAlias ==
    \E name \in Names, input \in AliasInputs :
        LET call(alias, r) ==
                /\ fp' = r.fp
                /\ last' = [op |-> "add_alias", name |-> name, category |-> input[2],
                            alias |-> alias, res |-> r.res, before |-> fp.buf,
                            written |-> IF r.res.outcome = "return"
                                        THEN PyDict(r.written) ELSE PyNone]
        IN  /\ call(Alias(name, input[1], input[2]),
                    AliasDB_add_alias(backend, fp, Alias(name, input[1], input[2])))
            /\ UNCHANGED <<backend, origin>>

\* aliases.remove_alias(name)
RemoveAlias ==
    \E name \in Names :
        LET call(r) ==
                /\ fp' = r.fp
                /\ last' = [op |-> "remove_alias", name |-> name, res |-> r.res,
                            before |-> fp.buf,
                            written |-> IF r.res.outcome = "return"
                                        THEN PyDict(r.written) ELSE PyNone]
        IN  /\ call(AliasDB_remove_alias(backend, fp, name))
            /\ UNCHANGED <<backend, origin>>

\* aliases.get_alias(name)
GetAlias ==
    \E name \in Names :
        LET call(r) ==
                /\ fp' = r.fp
                /\ last' = [op |-> "get_alias", name |-> name, res |-> r.res,
                            before |-> fp.buf]
        IN  /\ call(AliasDB_get_alias(backend, fp, name))
            /\ UNCHANGED <<backend, origin>>

\* aliases.get_aliases()
GetAliases ==
    LET call(r) ==
            /\ fp' = r.fp
            /\ last' = [op |-> "get_aliases", res |-> r.res, before |-> fp.buf]
    IN  /\ call(AliasDB_get_aliases(backend, fp))
        /\ UNCHANGED <<backend, origin>>

\* aliases.get_sh_script()
GetShScript ==
    LET call(r) ==
            /\ fp' = r.fp
            /\ last' = [op |-> "get_sh_script", res |-> r.res, before |-> fp.buf]
    IN  /\ call(AliasDB_get_sh_script(backend, fp))
        /\ UNCHANGED <<backend, origin>>

Next ==
    \/ AddAlias
    \/ RemoveAlias
    \/ GetAlias
    \/ GetAliases
    \/ GetShScript

Spec == Init /\ [][Next]_vars

-----------------------------------------------------------------------------
(* The module's pure functions: the initial state draws the arguments of   *)
(* one call from bounded sets, and the call is then made.                  *)

\* The characters of the commands handed to the renderer.
RenderAlphabet == {"a", DQ, SQ, BS, "$", "("}
RenderCommands == StringsUpTo(RenderAlphabet, MaxLen)
\* Names handed to the renderer, two of them with a quote in it.
RenderNames == {<<"a">>, <<"b", DQ>>, <<SQ, "c">>}

\* The (name, command, category) triples Alias objects are built from.
AliasArgs ==
    {<<n, c, k>> : n \in {<<"a">>, <<"b">>}, c \in {Cmd1, Cmd2},
                   k \in {PyNone, PyStr(<<>>), PyStr(<<"c">>)}}
\* Values that are not Alias objects.
OtherValues == {PyNone, PyStr(<<"a">>)}

PureInit ==
    /\ backend = "json"
    /\ fp = [buf |-> <<>>, pos |-> 0]
    /\ origin = "empty"
    /\ \/ \E name \in RenderNames, command \in RenderCommands :
              last = [op |-> "call", fn |-> "get_sh_alias_command",
                      name |-> name, command |-> command]
       \/ \E x \in AliasArgs :
              \E other \in {Alias(y[1], y[2], y[3]) : y \in AliasArgs} \cup OtherValues :
                  last = [op |-> "call", fn |-> "compare", args |-> x, other |-> other]

\* get_sh_alias_command(name, command)
RenderLine ==
    /\ last.op = "call" /\ last.fn = "get_sh_alias_command"
    /\ last' = [op |-> "get_sh_alias_command", name |-> last.name,
                command |-> last.command,
                res |-> Return(PyStr(get_sh_alias_command(last.name, last.command)))]
    /\ UNCHANGED <<backend, fp, origin>>

\* a == other and a != other, for a = Alias(name, command, category).
Compare ==
    /\ last.op = "call" /\ last.fn = "compare"
    /\ last' = [op |-> "compare", args |-> last.args, other |-> last.other,
                eq |-> AliasEq(Alias(last.args[1], last.args[2], last.args[3]),
                               last.other),
                ne |-> AliasNe(Alias(last.args[1], last.args[2], last.args[3]),
                               last.other)]
    /\ UNCHANGED <<backend, fp, origin>>

PureNext ==
    \/ RenderLine
    \/ Compare

PureSpec == PureInit /\ [][PureNext]_vars

-----------------------------------------------------------------------------
(* The vocabulary of the claims: the collection a stream content stands    *)
(* for, read off the document itself (the on-disk shape                    *)
(* {"aliases": {name: {"command": str, "category": str or null}}}), and    *)
(* the script a collection renders to.                                     *)

Document(b, text) == IF b = "json" THEN JsonLoads(text) ELSE YamlLoad(text)

IsAliasEntry(v) ==
    /\ v.t = "dict"
    /\ DictHas(v.items, KeyCommand) /\ DictGet(v.items, KeyCommand).t = "str"
    /\ DictHas(v.items, KeyCategory)
    /\ DictGet(v.items, KeyCategory).t \in {"None", "str"}

\* The text is empty, or a document of the on-disk shape.
HoldsCollection(b, text) ==
    LET shaped(d) ==
            /\ d.ok /\ d.val.t = "dict" /\ DictHas(d.val.items, KeyAliases)
            /\ DictGet(d.val.items, KeyAliases).t = "dict"
            /\ \A i \in 1..Len(DictGet(d.val.items, KeyAliases).items) :
                   IsAliasEntry(DictGet(d.val.items, KeyAliases).items[i][2])
    IN  text = <<>> \/ shaped(Document(b, text))

\* The collection such a text stands for: a function from names to records.
StoredCollection(b, text) ==
    LET collection(a) ==
            [n \in DictKeys(a) |->
                Alias(n, DictGet(DictGet(a, n).items, KeyCommand).s,
                      DictGet(DictGet(a, n).items, KeyCategory))]
    IN  IF text = <<>> THEN [n \in {} |-> n]
        ELSE collection(DictGet(Document(b, text).val.items, KeyAliases).items)

\* What a call returned, as a collection; NoCollection if it raised or
\* returned something that is not a dict.
NoCollection == [t |-> "no collection"]
AsCollection(res) ==
    IF res.outcome = "return" /\ res.ret.t = "dict" THEN DictMap(res.ret.items)
    ELSE NoCollection

\* command with one backslash put before every double and single quote.
Quoted(command) ==
    Concat([i \in 1..Len(command) |->
               IF command[i] \in {DQ, SQ} THEN <<BS, command[i]>> ELSE <<command[i]>>])

\* alias <name>="<quoted command>" and a line break.
AliasLine(name, command) ==
    <<"a", "l", "i", "a", "s", SP>> \o name \o <<"=", DQ>> \o Quoted(command)
        \o <<DQ, NL>>

RECURSIVE ScriptOf(_, _)
\* The alias lines of the records of coll under names, by ascending name.
ScriptOf(coll, names) ==
    IF names = {} THEN <<>>
    ELSE LET least == CHOOSE n \in names : \A m \in names : ~StrLess(m, n)
         IN  AliasLine(least, coll[least].command) \o ScriptOf(coll, names \ {least})

-----------------------------------------------------------------------------
(* The claims.                                                             *)

\* C1: after write_aliases(C), get_aliases() on the same stream returns a
\* collection equal to C, for either backend and every C the calls write,
\* the empty collection included.
C1_RoundTrip ==
    (last.op \in {"add_alias", "remove_alias"} /\ last.res.outcome = "return")
        => AsCollection(get_aliases(backend, fp).res) = DictMap(last.written.items)

\* C2: on a database that started from an empty stream, get_alias(name) for
\* a name that is not stored returns None and does not raise.
C2_GetAliasMissing ==
    (/\ origin = "empty"
     /\ last.op = "get_alias"
     /\ HoldsCollection(backend, last.before)
     /\ last.name \notin DOMAIN StoredCollection(backend, last.before))
        => last.res = Return(PyNone)

\* C3: on a stream whose content is not empty and not parsable JSON, the
\* JSON backend's get_aliases raises the decode error, and add_alias does
\* not overwrite the content.
C3_DecodeErrorSurfaced ==
    (/\ backend = "json"
     /\ last.op \in {"get_aliases", "add_alias"}
     /\ last.before # <<>>
     /\ ~JsonLoads(last.before).ok)
        => /\ last.res = Raise("JSONDecodeError")
           /\ fp.buf = last.before

\* C4: add_alias of a record whose name is already stored leaves the number
\* of stored records unchanged, stores the new record under that name, and
\* leaves the record under every other name as it was.
C4_OverwriteByName ==
    (/\ last.op = "add_alias"
     /\ HoldsCollection(backend, last.before)
     /\ last.name \in DOMAIN StoredCollection(backend, last.before))
        => /\ last.res = Return(PyNone)
           /\ HoldsCollection(backend, fp.buf)
           /\ LET old == StoredCollection(backend, last.before)
                  new == StoredCollection(backend, fp.buf)
              IN  /\ Cardinality(DOMAIN new) = Cardinality(DOMAIN old)
                  /\ DOMAIN new = DOMAIN old
                  /\ new[last.name] = last.alias
                  /\ \A n \in DOMAIN old \ {last.name} : new[n] = old[n]

\* C4's case: a stored record is replaced by a different one while another
\* record is stored beside it.
C4_Witness ==
    /\ last.op = "add_alias"
    /\ last.res = Return(PyNone)
    /\ HoldsCollection(backend, last.before)
    /\ last.name \in DOMAIN StoredCollection(backend, last.before)
    /\ StoredCollection(backend, last.before)[last.name] # last.alias
    /\ Cardinality(DOMAIN StoredCollection(backend, last.before)) >= 2

\* C5: remove_alias(name) for a name that is not stored raises KeyError and
\* leaves the stream content as it was.
C5_RemoveMissing ==
    (/\ last.op = "remove_alias"
     /\ HoldsCollection(backend, last.before)
     /\ last.name \notin DOMAIN StoredCollection(backend, last.before))
        => /\ last.res = Raise("KeyError")
           /\ fp.buf = last.before

\* C6: after remove_alias(name) for a stored name, get_aliases() returns the
\* collection without that name: one record fewer, every other record as
\* it was.
C6_RemoveStored ==
    (/\ last.op = "remove_alias"
     /\ HoldsCollection(backend, last.before)
     /\ last.name \in DOMAIN StoredCollection(backend, last.before))
        => LET old == StoredCollection(backend, last.before)
               new == AsCollection(get_aliases(backend, fp).res)
           IN  /\ last.res = Return(PyNone)
               /\ new # NoCollection
               /\ DOMAIN new = DOMAIN old \ {last.name}
               /\ Cardinality(DOMAIN new) = Cardinality(DOMAIN old) - 1
               /\ \A n \in DOMAIN new : new[n] = old[n]

\* C7: get_sh_script() returns the alias lines of the stored records by
\* ascending name, and the empty string for an empty collection.
C7_SortedScript ==
    (last.op = "get_sh_script" /\ HoldsCollection(backend, last.before))
        => LET coll == StoredCollection(backend, last.before)
           IN  last.res = Return(PyStr(ScriptOf(coll, DOMAIN coll)))

\* C8: get_sh_alias_command(name, command) returns alias <name>="<E>" and a
\* line break, where E is command with a backslash before every double and
\* single quote and nothing else changed; name is not changed.
C8_AliasLine ==
    last.op = "get_sh_alias_command"
        => last.res = Return(PyStr(AliasLine(last.name, last.command)))

\* C8's case: a name with a quote in it, and a command that holds a double
\* quote, a single quote and a backslash.
C8_Witness ==
    /\ last.op = "get_sh_alias_command"
    /\ last.name = <<"b", DQ>>
    /\ last.command = <<SQ, BS, DQ>>
    /\ last.res = Return(PyStr(<<"a", "l", "i", "a", "s", SP, "b", DQ, "=", DQ,
                                 BS, SQ, BS, BS, DQ, DQ, NL>>))

\* C9: a == other is true exactly when other is an Alias with the same
\* name, command and category (an empty-string category counting as none),
\* and a != other is true exactly when a == other is not.
C9_StructuralEquality ==
    last.op = "compare"
        => /\ Truthy(last.eq) <=>
                  /\ last.other.t = "Alias"
                  /\ last.other.alias_name = last.args[1]
                  /\ last.other.command = last.args[2]
                  /\ last.other.category =
                         (IF last.args[3] = PyStr(<<>>) THEN PyNone ELSE last.args[3])
           /\ Truthy(last.ne) <=> ~Truthy(last.eq)

\* C10: on a stream of length zero get_aliases() returns the empty
\* collection, and a first add_alias succeeds and stores exactly the added
\* record.
C10_EmptyStream ==
    /\ (last.op = "get_aliases" /\ last.before = <<>>)
           => last.res = Return(PyDict(<<>>))
    /\ (last.op = "add_alias" /\ last.before = <<>>)
           => /\ last.res = Return(PyNone)
              /\ get_aliases(backend, fp).res
                     = Return(PyDict(<< <<last.name, last.alias>> >>))

\* C10's case: the first add_alias on an empty stream of the YAML backend.
C10_Witness ==
    /\ backend = "yaml"
    /\ last.op = "add_alias"
    /\ last.before = <<>>
    /\ last.res = Return(PyNone)
    /\ fp.buf # <<>>

\* The serialization of collection C by backend b: what write_aliases
\* leaves on a stream that held nothing.
Serialization(b, C) == write_aliases(b, [buf |-> <<>>, pos |-> 0], C).buf

\* The first half of C11 on its own: after a call that reached
\* write_aliases(C) the stream content is exactly the serialization of C
\* and the position is at its end, whatever the stream held before.
C11_StreamIsSerialization ==
    (last.op \in {"add_alias", "remove_alias"} /\ last.res.outcome = "return")
        => /\ fp.buf = Serialization(backend, last.written.items)
           /\ fp.pos = Len(fp.buf)

\* C11: after every write_aliases(C), whatever the length of the previous
\* content, the stream content is exactly the serialization of C with
\* nothing of the previous content after it; and after a remove_alias that
\* shortens the content, get_aliases() returns exactly C.
C11_WriteReplacesContent ==
    (last.op \in {"add_alias", "remove_alias"} /\ last.res.outcome = "return")
        => /\ fp.buf = Serialization(backend, last.written.items)
           /\ (last.op = "remove_alias" /\ Len(fp.buf) < Len(last.before))
                  => AsCollection(get_aliases(backend, fp).res)
                         = DictMap(last.written.items)

=============================================================================
